---- MODULE Spec2Model ----
(***************************************************************************)
(* Model of registry.py: the Registry dict, its RegistryErrorDict, the     *)
(* admissibility check _registry_row_is_addable, the conversion            *)
(* _registry_row_from_csv with _string_to_decimal, and load_from_file.     *)
(*                                                                         *)
(* A Python str is modelled as a sequence of one-character strings, so     *)
(* that len(), int(), strptime(), str.replace() and Decimal() are computed *)
(* character by character as the library does.                             *)
(***************************************************************************)
EXTENDS Integers, Sequences, FiniteSets, TLC

VARIABLES
    pc,       \* "constructed" | "loading" | "done": position in load_from_file
    self,     \* the Registry dict itself: key -> value, 'Errors' included
    comp,     \* the dict the comprehension of load_from_file is building
    read,     \* the rows csv_helper.reader has yielded so far
    outcome,  \* the logging call load_from_file ended with
    call      \* the last method call made: operation, row and return value

vars == <<pc, self, comp, read, outcome, call>>

(***************************************************************************)
(* Bounds of the model.                                                    *)
(***************************************************************************)
\* longest batch the reader yields
MaxRows == 2
\* most rows with an empty ISIN checked by direct calls
MaxMissing == 2

(***************************************************************************)
(* String literals of the source and the field values the rows draw from.  *)
(***************************************************************************)
ErrorsKey == <<"E","r","r","o","r","s">>

IsinEmpty == <<>>
Isin11 == <<"1","2","3","4","5","6","7","8","9","0","1">>
IsinA == <<"1","2","3","4","5","6","7","8","9","0","1","2">>
IsinB == <<"U","S","0","3","7","8","3","3","1","0","0","5">>

NameEmpty == <<>>
NameCompany == <<"C","o","m","p","a","n","y">>

DateGood == <<"2","0","0","0",".","0","1",".","0","1">>
DateBad == <<"2","0","0","0","0",".","0","1",".","0","1">>
DateFeb30 == <<"2","0","0","1",".","2",".","3","0">>

EpsPoint == <<"1","2",".","3","4">>
EpsComma == <<"1","2",",","3","4">>
EpsJunk == <<"n","/","a">>

Http == <<"h","t","t","p">>

Isins == {IsinEmpty, Isin11, IsinA, IsinB}
Names == {NameEmpty, NameCompany}
MonthsStrings == {<<>>, <<"3">>, <<"1","2">>, <<"X">>, <<"4">>}
DateStrings == {<<>>, DateGood, DateBad}
EpsStrings == {<<>>, EpsPoint, EpsComma, EpsJunk}

\* the rows a direct call may be given: for one identifier every name,
\* months and date string; rejected identifiers and a second identifier with
\* good and bad fields; and every EPS and link string
Rows ==
    [ISIN : {IsinA}, Name : Names, EPS : {EpsPoint}, Months : MonthsStrings,
     Expiry : DateStrings, OwnLink : {Http}, ExchangeLink : {Http}]
    \cup
    [ISIN : {IsinEmpty, Isin11}, Name : Names, EPS : {EpsPoint},
     Months : {<<"3">>, <<"X">>}, Expiry : {DateGood, DateBad},
     OwnLink : {Http}, ExchangeLink : {Http}]
    \cup
    [ISIN : {IsinB}, Name : Names, EPS : {EpsPoint}, Months : {<<"3">>},
     Expiry : {DateGood, DateFeb30}, OwnLink : {Http}, ExchangeLink : {Http}]
    \cup
    [ISIN : {IsinA}, Name : {NameCompany}, EPS : EpsStrings, Months : {<<"3">>},
     Expiry : {DateGood}, OwnLink : {Http}, ExchangeLink : {<<>>, Http}]

\* the rows the registry file may hold
FileRows ==
    [ISIN : Isins, Name : Names, EPS : {EpsPoint, EpsComma},
     Months : {<<"3">>, <<"4">>}, Expiry : {<<>>, DateBad},
     OwnLink : {Http}, ExchangeLink : {Http}]

(***************************************************************************)
(* Library functions, computed on character sequences.                     *)
(***************************************************************************)
DigitChars == <<"0","1","2","3","4","5","6","7","8","9">>

IsDigit(c) == \E i \in 1..10 : DigitChars[i] = c

DigitVal(c) == (CHOOSE i \in 1..10 : DigitChars[i] = c) - 1

AllDigits(s) == \A i \in 1..Len(s) : IsDigit(s[i])

Contains(s, c) == \E i \in 1..Len(s) : s[i] = c

\* str.replace(a, b) for one-character a and b
Replace(s, a, b) == [i \in 1..Len(s) |-> IF s[i] = a THEN b ELSE s[i]]

RECURSIVE DigitsValue(_)
DigitsValue(s) ==
    IF s = <<>> THEN 0
    ELSE 10 * DigitsValue(SubSeq(s, 1, Len(s) - 1)) + DigitVal(s[Len(s)])

Unsigned(s) == IF s # <<>> /\ s[1] \in {"+", "-"} THEN Tail(s) ELSE s

\* int(s) raises ValueError
IntRaises(s) == Unsigned(s) = <<>> \/ ~AllDigits(Unsigned(s))

\* int(s) where it does not raise
IntValue(s) ==
    IF s # <<>> /\ s[1] = "-" THEN 0 - DigitsValue(Unsigned(s))
    ELSE DigitsValue(Unsigned(s))

\* s.split(sep)
RECURSIVE Split(_, _)
Split(s, sep) ==
    IF ~Contains(s, sep) THEN <<s>>
    ELSE LET i == CHOOSE k \in 1..Len(s) :
                      s[k] = sep /\ \A j \in 1..(k - 1) : s[j] # sep
         IN  <<SubSeq(s, 1, i - 1)>> \o Split(SubSeq(s, i + 1, Len(s)), sep)

IsLeap(y) == (y % 4 = 0 /\ y % 100 # 0) \/ y % 400 = 0

DaysInMonth(y, m) ==
    IF m = 2 THEN (IF IsLeap(y) THEN 29 ELSE 28)
    ELSE IF m \in {4, 6, 9, 11} THEN 30 ELSE 31

\* config['DEFAULT']['Date format'] is '%Y.%m.%d': four digits of year, one
\* or two of month and of day, and a date that exists
StrptimeRaises(s) ==
    LET p == Split(s, ".")
    IN  ~ ( /\ Len(p) = 3
            /\ Len(p[1]) = 4 /\ AllDigits(p[1]) /\ DigitsValue(p[1]) >= 1
            /\ Len(p[2]) \in {1, 2} /\ AllDigits(p[2])
            /\ DigitsValue(p[2]) \in 1..12
            /\ Len(p[3]) \in {1, 2} /\ AllDigits(p[3])
            /\ DigitsValue(p[3]) \in 1..DaysInMonth(DigitsValue(p[1]), DigitsValue(p[2])) )

\* decimal.Decimal(s) raises InvalidOperation: s is not [sign] digits [. digits]
DecimalRaises(s) ==
    LET p == Split(Unsigned(s), ".")
    IN  ~ ( /\ Len(p) \in {1, 2}
            /\ \A i \in 1..Len(p) : AllDigits(p[i])
            /\ \E i \in 1..Len(p) : p[i] # <<>> )

\* decimal.Decimal(s) where it does not raise: sign, coefficient, exponent
DecimalValue(s) ==
    LET p == Split(Unsigned(s), ".")
        frac == IF Len(p) = 2 THEN p[2] ELSE <<>>
    IN  [sign |-> IF s[1] = "-" THEN 1 ELSE 0,
         coeff |-> DigitsValue(p[1] \o frac),
         exp |-> 0 - Len(frac)]

DecimalZero == [sign |-> 0, coeff |-> 0, exp |-> 0]

(***************************************************************************)
(* RegistryErrorDict and the Registry methods.                             *)
(***************************************************************************)
RegistryErrorDict ==
    [ErrorsFound |-> FALSE,
     NumberOfMissingISINs |-> 0,
     FaultyISINs |-> {},
     MissingNames |-> {},
     FaultyMonthsInReport |-> {},
     FaultyReportExpiryDates |-> {}]

\* MissingIsin with the empty identifier filed among the faulty ones
MissingIsinAsFaulty(e) ==
    [e EXCEPT !.ErrorsFound = TRUE, !.FaultyISINs = @ \cup {<<>>}]

\* lines 48-51: the branch taken when row['ISIN'] is empty
MissingIsin(e) ==
    [e EXCEPT !.ErrorsFound = TRUE, !.NumberOfMissingISINs = @ + 1]

\* lines 52-55: the branch taken when len(row['ISIN']) != 12
FaultyIsin(e, row) ==
    [e EXCEPT !.ErrorsFound = TRUE, !.FaultyISINs = @ \cup {row.ISIN}]

\* CheckName with the set assigned instead of added to
CheckNameAssigns(e, row) ==
    IF row.Name = <<>>
    THEN [e EXCEPT !.ErrorsFound = TRUE, !.MissingNames = {row.ISIN}]
    ELSE e

\* lines 57-59
CheckName(e, row) ==
    IF row.Name = <<>>
    THEN [e EXCEPT !.ErrorsFound = TRUE, !.MissingNames = @ \cup {row.ISIN}]
    ELSE e

\* MonthsRaises without the guard for the empty string: int('') raises
MonthsRaisesOnEmpty(row) ==
    IntRaises(row.Months) \/ IntValue(row.Months) \notin {0, 3, 6, 9, 12}

\* lines 62-64: the try block raises ValueError
MonthsRaises(row) ==
    IF row.Months # <<>>
    THEN IntRaises(row.Months) \/ IntValue(row.Months) \notin {0, 3, 6, 9, 12}
    ELSE 0 \notin {0, 3, 6, 9, 12}

\* lines 61-67
CheckMonths(e, row) ==
    IF MonthsRaises(row)
    THEN [e EXCEPT !.ErrorsFound = TRUE,
                   !.FaultyMonthsInReport = @ \cup {row.ISIN}]
    ELSE e

\* CheckExpiry without setting the flag
CheckExpiryNoFlag(e, row) ==
    IF row.Expiry # <<>> /\ StrptimeRaises(row.Expiry)
    THEN [e EXCEPT !.FaultyReportExpiryDates = @ \cup {row.ISIN}]
    ELSE e

\* lines 69-74
CheckExpiry(e, row) ==
    IF row.Expiry # <<>> /\ StrptimeRaises(row.Expiry)
    THEN [e EXCEPT !.ErrorsFound = TRUE,
                   !.FaultyReportExpiryDates = @ \cup {row.ISIN}]
    ELSE e

\* RegistryRowIsAddable with the elif branch falling through to the soft checks
RegistryRowIsAddableFallsThrough(e, row) ==
    IF row.ISIN = <<>> THEN [ret |-> FALSE, errors |-> MissingIsin(e)]
    ELSE IF Len(row.ISIN) # 12
    THEN [ret |-> FALSE,
          errors |-> CheckExpiry(CheckMonths(CheckName(FaultyIsin(e, row), row), row), row)]
    ELSE [ret |-> TRUE,
          errors |-> CheckExpiry(CheckMonths(CheckName(e, row), row), row)]

\* _registry_row_is_addable: the value returned and self['Errors'] afterwards
RegistryRowIsAddable(e, row) ==
    IF row.ISIN = <<>> THEN [ret |-> FALSE, errors |-> MissingIsin(e)]
    ELSE IF Len(row.ISIN) # 12 THEN [ret |-> FALSE, errors |-> FaultyIsin(e, row)]
    ELSE [ret |-> TRUE,
          errors |-> CheckExpiry(CheckMonths(CheckName(e, row), row), row)]

\* _string_to_decimal: the string s.replace(',', '.') builds is dropped, and
\* Decimal() is given s itself
StringToDecimal(s) ==
    LET dropped == IF ~Contains(s, ".") THEN Replace(s, ",", ".") ELSE s
    IN  IF DecimalRaises(s) THEN DecimalZero ELSE DecimalValue(s)

\* _registry_row_from_csv
RegistryRowFromCsv(row) ==
    [Name |-> row.Name,
     EPS |-> StringToDecimal(row.EPS),
     Months |-> row.Months,
     Expiry |-> row.Expiry,
     OwnLink |-> row.OwnLink,
     ExchangeLink |-> row.ExchangeLink]

\* Update that keeps the entry a key already has
UpdateKeepsFirst(d, other) == d @@ other

\* dict.update(other): other's entries replace and extend d's
Update(d, other) == other @@ d

\* len(self)
DictLen(d) == Cardinality(DOMAIN d)

\* the logging call load_from_file ends with (lines 37-43)
LoadReport(d) ==
    IF DictLen(d) # 0
    THEN IF ~d[ErrorsKey].ErrorsFound
         THEN [level |-> "info", msg |-> "new ISIN loaded. No errors found.",
               n |-> DictLen(d)]
         ELSE [level |-> "error", msg |-> "The following errors found:", n |-> 0]
    ELSE [level |-> "error", msg |-> "No ISIN loaded.", n |-> 0]

NoCall == [op |-> "__init__", row |-> <<>>, ret |-> <<>>]

(***************************************************************************)
(* The state machine.                                                      *)
(***************************************************************************)
\* Registry(): the dict holds the one key 'Errors'
Init ==
    /\ pc = "constructed"
    /\ self = (ErrorsKey :> RegistryErrorDict)
    /\ comp = <<>>
    /\ read = <<>>
    /\ outcome = [level |-> "none", msg |-> "", n |-> 0]
    /\ call = NoCall

\* one iteration of the dict comprehension of load_from_file
ComprehensionStep(row) ==
    /\ pc \in {"constructed", "loading"}
    /\ Len(read) < MaxRows
    /\ LET r == RegistryRowIsAddable(self[ErrorsKey], row)
       IN  /\ self' = [self EXCEPT ![ErrorsKey] = r.errors]
           /\ comp' = IF r.ret
                      THEN Update(comp, row.ISIN :> RegistryRowFromCsv(row))
                      ELSE comp
           /\ call' = [op |-> "is_addable", row |-> row, ret |-> r.ret]
    /\ read' = Append(read, row)
    /\ pc' = "loading"
    /\ UNCHANGED outcome

\* the reader is exhausted: self.update(...) and the report
LoadFinish ==
    /\ pc \in {"constructed", "loading"}
    /\ self' = Update(self, comp)
    /\ outcome' = LoadReport(self')
    /\ pc' = "done"
    /\ UNCHANGED <<comp, read, call>>

LoadRow == \E row \in FileRows : ComprehensionStep(row)

Next == LoadRow \/ LoadFinish

Spec == Init /\ [][Next]_vars

\* a direct call of _registry_row_is_addable, as the unit tests make
CallIsAddable(row) ==
    /\ pc = "constructed"
    /\ row.ISIN = <<>> => self[ErrorsKey].NumberOfMissingISINs < MaxMissing
    /\ LET r == RegistryRowIsAddable(self[ErrorsKey], row)
       IN  /\ self' = [self EXCEPT ![ErrorsKey] = r.errors]
           /\ call' = [op |-> "is_addable", row |-> row, ret |-> r.ret]
    /\ UNCHANGED <<pc, comp, read, outcome>>

\* a direct call of _registry_row_from_csv
CallFromCsv(row) ==
    /\ pc = "constructed"
    /\ call' = [op |-> "from_csv", row |-> row, ret |-> RegistryRowFromCsv(row)]
    /\ UNCHANGED <<pc, self, comp, read, outcome>>

CheckRow == \E row \in Rows : CallIsAddable(row)

ConvertRow == \E row \in Rows : CallFromCsv(row)

NextCalls == CheckRow \/ ConvertRow

SpecCalls == Init /\ [][NextCalls]_vars

(***************************************************************************)
(* Vocabulary of the properties.                                           *)
(***************************************************************************)
\* the RegistryErrorDict the registry owns
Errors == self[ErrorsKey]

\* a hard-rejected row: identifier empty or not 12 characters long
HardRejected(row) == row.ISIN = <<>> \/ Len(row.ISIN) # 12

NameMissing(row) == row.Name = <<>>

\* the months string is non-empty and is no integer of {0, 3, 6, 9, 12}
PeriodInvalid(row) ==
    /\ row.Months # <<>>
    /\ (IntRaises(row.Months) \/ IntValue(row.Months) \notin {0, 3, 6, 9, 12})

\* the expiry string is non-empty and does not parse
ExpiryInvalid(row) == row.Expiry # <<>> /\ StrptimeRaises(row.Expiry)

\* a row with a 12-character identifier and no soft error
Clean(row) ==
    /\ ~HardRejected(row)
    /\ ~NameMissing(row) /\ ~PeriodInvalid(row) /\ ~ExpiryInvalid(row)

\* the identifiers of the rows read that pass the admissibility check
AdmittedIsins == {read[i].ISIN : i \in {j \in 1..Len(read) : ~HardRejected(read[j])}}

\* this step is a call of _registry_row_is_addable
CheckStep == pc' # "done" /\ call'.op = "is_addable"

\* the four identifier sets and the stored records are as before the step
SetsUnchanged ==
    /\ Errors'.FaultyISINs = Errors.FaultyISINs
    /\ Errors'.MissingNames = Errors.MissingNames
    /\ Errors'.FaultyMonthsInReport = Errors.FaultyMonthsInReport
    /\ Errors'.FaultyReportExpiryDates = Errors.FaultyReportExpiryDates

RecordsUnchanged ==
    /\ comp' = comp
    /\ DOMAIN self' = DOMAIN self
    /\ \A k \in DOMAIN self \ {ErrorsKey} : self'[k] = self[k]

(***************************************************************************)
(* C1: after a load whose rows are all hard-rejected the registry mapping  *)
(* is empty and the load reports 'No ISIN loaded.', although errors were   *)
(* counted.                                                                *)
(***************************************************************************)
C1_AllRejectedReportsNoIsin ==
    ( /\ pc = "done"
      /\ Len(read) >= 1
      /\ \A i \in 1..Len(read) : HardRejected(read[i]) )
    => ( /\ DOMAIN self = {}
         /\ outcome.msg = "No ISIN loaded." )

(***************************************************************************)
(* C2: after a load of N >= 1 rows with pairwise distinct identifiers and  *)
(* no error at all, the registry mapping has exactly N entries,            *)
(* errors_found is false and the success report counts N identifiers.      *)
(***************************************************************************)
C2_CleanBatchLoadsN ==
    ( /\ pc = "done"
      /\ Len(read) >= 1
      /\ \A i \in 1..Len(read) : Clean(read[i])
      /\ \A i, j \in 1..Len(read) : i # j => read[i].ISIN # read[j].ISIN )
    => ( /\ DictLen(self) = Len(read)
         /\ ~Errors.ErrorsFound
         /\ outcome.level = "info"
         /\ outcome.n = Len(read) )

(***************************************************************************)
(* C3: after a load the keys of the registry mapping are exactly the       *)
(* identifiers of the rows that passed the admissibility check: every      *)
(* admitted row, soft errors or not, and no other key.                     *)
(***************************************************************************)
C3_KeysAreAdmittedIsins ==
    pc = "done" => DOMAIN self = AdmittedIsins

(***************************************************************************)
(* C4: a check of a row with an empty identifier returns false, sets       *)
(* errors_found, adds exactly one to the count of missing identifiers and  *)
(* leaves the four identifier sets and the stored records as they were.    *)
(***************************************************************************)
C4_EmptyIsin ==
    [][ (CheckStep /\ call'.row.ISIN = <<>>)
        => ( /\ call'.ret = FALSE
             /\ Errors'.ErrorsFound
             /\ Errors'.NumberOfMissingISINs = Errors.NumberOfMissingISINs + 1
             /\ SetsUnchanged
             /\ RecordsUnchanged ) ]_vars

\* an empty-identifier row with a missing name and bad months and date was
\* checked after an earlier check had filled a set
C4_Witness ==
    /\ call.op = "is_addable"
    /\ call.row.ISIN = <<>> /\ call.row.Name = <<>>
    /\ PeriodInvalid(call.row) /\ ExpiryInvalid(call.row)
    /\ call.ret = FALSE
    /\ Errors.NumberOfMissingISINs = 2
    /\ Errors.MissingNames = {IsinA}
    /\ Errors.FaultyISINs = {}

(***************************************************************************)
(* C5: a check of a row whose identifier is non-empty and not 12 long      *)
(* returns false, sets errors_found, adds the identifier to the faulty     *)
(* identifiers and stops: the count and the three other sets stay as they  *)
(* were, whatever the name, months and date of the row.                    *)
(***************************************************************************)
C5_FaultyIsin ==
    [][ (CheckStep /\ call'.row.ISIN # <<>> /\ Len(call'.row.ISIN) # 12)
        => ( /\ call'.ret = FALSE
             /\ Errors'.ErrorsFound
             /\ Errors'.FaultyISINs = Errors.FaultyISINs \cup {call'.row.ISIN}
             /\ Errors'.NumberOfMissingISINs = Errors.NumberOfMissingISINs
             /\ Errors'.MissingNames = Errors.MissingNames
             /\ Errors'.FaultyMonthsInReport = Errors.FaultyMonthsInReport
             /\ Errors'.FaultyReportExpiryDates = Errors.FaultyReportExpiryDates ) ]_vars

\* an 11-character row with a missing name and bad months and date was
\* checked and only the faulty identifiers took it
C5_Witness ==
    /\ call.op = "is_addable"
    /\ call.row.ISIN = Isin11 /\ call.row.Name = <<>>
    /\ PeriodInvalid(call.row) /\ ExpiryInvalid(call.row)
    /\ call.ret = FALSE
    /\ Errors = [RegistryErrorDict EXCEPT !.ErrorsFound = TRUE,
                                          !.FaultyISINs = {Isin11}]

(***************************************************************************)
(* C6: a check of a row with a 12-character identifier against a fresh     *)
(* report returns true and files the identifier under missing names iff    *)
(* the name is empty, under faulty months iff the months string is         *)
(* non-empty and no integer of {0, 3, 6, 9, 12}, under faulty dates iff    *)
(* the date is non-empty and does not parse; errors_found is true iff one  *)
(* of the three fired; the count stays 0 and the faulty identifiers empty. *)
(***************************************************************************)
C6_SoftRules ==
    [][ (CheckStep /\ Len(call'.row.ISIN) = 12 /\ Errors = RegistryErrorDict)
        => ( /\ call'.ret = TRUE
             /\ Errors'.MissingNames =
                    IF NameMissing(call'.row) THEN {call'.row.ISIN} ELSE {}
             /\ Errors'.FaultyMonthsInReport =
                    IF PeriodInvalid(call'.row) THEN {call'.row.ISIN} ELSE {}
             /\ Errors'.FaultyReportExpiryDates =
                    IF ExpiryInvalid(call'.row) THEN {call'.row.ISIN} ELSE {}
             /\ Errors'.ErrorsFound =
                    ( \/ NameMissing(call'.row)
                      \/ PeriodInvalid(call'.row)
                      \/ ExpiryInvalid(call'.row) )
             /\ Errors'.NumberOfMissingISINs = 0
             /\ Errors'.FaultyISINs = {} ) ]_vars

\* one check filed a row under missing names and faulty months and not
\* under faulty dates
C6_Witness ==
    /\ call.op = "is_addable"
    /\ call.row.ISIN = IsinA /\ call.row.Name = <<>>
    /\ call.row.Months = <<"4">> /\ call.row.Expiry = DateGood
    /\ call.ret = TRUE
    /\ Errors = [RegistryErrorDict EXCEPT !.ErrorsFound = TRUE,
                                          !.MissingNames = {IsinA},
                                          !.FaultyMonthsInReport = {IsinA}]

(***************************************************************************)
(* C7: an EPS string without a point and with a comma is converted by      *)
(* parsing the string with comma replaced by point; zero is stored only    *)
(* when that string does not parse.                                        *)
(***************************************************************************)
C7_CommaIsDecimalMark ==
    ( /\ call.op = "from_csv"
      /\ ~Contains(call.row.EPS, ".")
      /\ Contains(call.row.EPS, ",") )
    => call.ret.EPS =
          IF DecimalRaises(Replace(call.row.EPS, ",", "."))
          THEN DecimalZero
          ELSE DecimalValue(Replace(call.row.EPS, ",", "."))

\* the flag says what the count and the four sets say
FlagMatchesReport ==
    Errors.ErrorsFound =
        ( \/ Errors.NumberOfMissingISINs > 0
          \/ Errors.FaultyISINs # {}
          \/ Errors.MissingNames # {}
          \/ Errors.FaultyMonthsInReport # {}
          \/ Errors.FaultyReportExpiryDates # {} )

(***************************************************************************)
(* C8: errors_found is true exactly when the count of missing identifiers  *)
(* is positive or one of the four identifier sets is non-empty, and once   *)
(* true it stays true.                                                     *)
(***************************************************************************)
C8_FlagTracksReport ==
    /\ []FlagMatchesReport
    /\ [][Errors.ErrorsFound => Errors'.ErrorsFound]_vars

\* the flag is up with only a date recorded, and a conversion was the last call
C8_Witness ==
    /\ call.op = "from_csv"
    /\ Errors.ErrorsFound
    /\ Errors.FaultyReportExpiryDates = {IsinA, IsinB}
    /\ Errors.NumberOfMissingISINs = 0
    /\ Errors.FaultyISINs = {} /\ Errors.MissingNames = {}
    /\ Errors.FaultyMonthsInReport = {}

\* no later row read has the identifier of row i
LastOf(i) == \A j \in (i + 1)..Len(read) : read[j].ISIN # read[i].ISIN

(***************************************************************************)
(* C9: when several admitted rows of a batch share an identifier, the      *)
(* record stored under it after the load is the conversion of the last of  *)
(* them, the mapping holds one entry per admitted identifier, and the      *)
(* collision is recorded nowhere in the report.                            *)
(***************************************************************************)
C9_LastDuplicateWins ==
    pc = "done" =>
        /\ \A i \in 1..Len(read) :
               (~HardRejected(read[i]) /\ LastOf(i))
               => ( /\ read[i].ISIN \in DOMAIN self
                    /\ self[read[i].ISIN] = RegistryRowFromCsv(read[i]) )
        /\ Cardinality(DOMAIN self \ {ErrorsKey}) = Cardinality(AdmittedIsins)
        /\ (\A i \in 1..Len(read) : Clean(read[i])) => Errors = RegistryErrorDict

\* two clean rows with one identifier and different EPS strings were loaded
C9_Witness ==
    /\ pc = "done"
    /\ Len(read) >= 2
    /\ read[1].ISIN = IsinA /\ read[2].ISIN = IsinA
    /\ Clean(read[1]) /\ Clean(read[2])
    /\ read[1].EPS = EpsPoint /\ read[2].EPS = EpsComma
    /\ self[IsinA].EPS = DecimalZero

\* every category the row fails already holds its identifier in report e
AlreadyRecorded(row, e) ==
    IF Len(row.ISIN) # 12 THEN row.ISIN \in e.FaultyISINs
    ELSE /\ NameMissing(row) \/ PeriodInvalid(row) \/ ExpiryInvalid(row)
         /\ NameMissing(row) => row.ISIN \in e.MissingNames
         /\ PeriodInvalid(row) => row.ISIN \in e.FaultyMonthsInReport
         /\ ExpiryInvalid(row) => row.ISIN \in e.FaultyReportExpiryDates

(***************************************************************************)
(* C10: over the checks the four identifier sets only grow; a check of a   *)
(* row whose every failure is already recorded for its identifier leaves   *)
(* the report as it was, while every check of a row with an empty          *)
(* identifier adds one to the count again.                                 *)
(***************************************************************************)
C10_SetsGrowAndCollapse ==
    [][ /\ Errors.FaultyISINs \subseteq Errors'.FaultyISINs
        /\ Errors.MissingNames \subseteq Errors'.MissingNames
        /\ Errors.FaultyMonthsInReport \subseteq Errors'.FaultyMonthsInReport
        /\ Errors.FaultyReportExpiryDates \subseteq Errors'.FaultyReportExpiryDates
        /\ (CheckStep /\ call'.row.ISIN # <<>> /\ AlreadyRecorded(call'.row, Errors))
           => Errors' = Errors
        /\ (CheckStep /\ call'.row.ISIN = <<>>)
           => Errors'.NumberOfMissingISINs = Errors.NumberOfMissingISINs + 1 ]_vars

\* months "4" were checked for an identifier that is filed once under faulty
\* months, with two rows without identifier counted and two names missing
C10_Witness ==
    /\ call.op = "is_addable"
    /\ call.row.ISIN = IsinA /\ call.row.Months = <<"4">>
    /\ Errors.FaultyMonthsInReport = {IsinA}
    /\ Errors.MissingNames = {IsinA, IsinB}
    /\ Errors.NumberOfMissingISINs = 2

====
